---- MODULE Spec2Model ----
(***************************************************************************)
(* State-machine model of the poker table program in src/lib.rs: one Table *)
(* account, its PlayerState accounts and the table vault.                  *)
(*                                                                         *)
(* Identities are the numbers 1..NumIds; 0 is Pubkey::default(), the empty *)
(* slot sentinel.  ps[i] is the PlayerState account read and written as    *)
(* ctx.accounts.player_states[i]: the account of the occupant of slot i,   *)
(* and, for an empty slot, the account its last occupant left behind (a    *)
(* zeroed account when the slot was never occupied).                       *)
(*                                                                         *)
(* An instruction that returns an error or panics is rolled back by the    *)
(* runtime: it leaves every account as it was.  lastOp records the last    *)
(* instruction submitted: for one that succeeded its name, signer and      *)
(* argument, and whether check_round_completion found the round complete.  *)
(* acts, raises and hands count the successful betting instructions, the   *)
(* raises and the hands started; they only bound the exploration.          *)
(***************************************************************************)
EXTENDS Integers, Sequences, FiniteSets, TLC

\* ---- bounds of the model ------------------------------------------------
NumIds == 4
MaxSeed == 1
MaxHands == 2
MaxActs == 6
MaxRaises == 1
MaxLeaves == 1
MaxShuffleSeed == 5

\* ---- table configuration passed to create_table -------------------------
max_players == 4
SmallBlind == 1
BigBlind == 2

\* ---- program constants ---------------------------------------------------
MinSeats == 2
MaxSeatsAllowed == 9
BuyInFactor == 10
MinPlayersToStart == 2
StubHandValue == 42
DeckSize == 52
HoleCards == 2
CommunityCards == 5

buy_in == BuyInFactor * BigBlind

Players == 1..NumIds
Slots == 0..(max_players - 1)
Empty == 0

VARIABLES host, small_blind, big_blind, status, pot, players, player_count,
          current_player_index, dealer_index, round, highest_bet,
          community_cards, ps, vault, accounts,
          acts, raises, hands, lastOp

tableVars == <<host, small_blind, big_blind, status, pot, players, player_count,
               current_player_index, dealer_index, round, highest_bet,
               community_cards>>
vars == <<host, small_blind, big_blind, status, pot, players, player_count,
          current_player_index, dealer_index, round, highest_bet,
          community_cards, ps, vault, accounts,
          acts, raises, hands, lastOp>>

\* A PlayerState account as allocated (all fields zero) and as funded.
ZeroState ==
    [player |-> Empty, chips |-> 0, is_active |-> FALSE, is_folded |-> FALSE,
     is_all_in |-> FALSE, current_bet |-> 0, cards |-> <<0, 0>>]

\* NewPlayerState without the is_active flag.
NewPlayerStateInactive(p) ==
    [player |-> p, chips |-> buy_in, is_active |-> FALSE, is_folded |-> FALSE,
     is_all_in |-> FALSE, current_bet |-> 0, cards |-> <<0, 0>>]

NewPlayerState(p) ==
    [player |-> p, chips |-> buy_in, is_active |-> TRUE, is_folded |-> FALSE,
     is_all_in |-> FALSE, current_bet |-> 0, cards |-> <<0, 0>>]

\* create_table's require! lines.
CreateRequirements ==
    /\ max_players >= MinSeats /\ max_players <= MaxSeatsAllowed
    /\ big_blind >= small_blind
    /\ buy_in >= big_blind * BuyInFactor

\* Min keeping one of b back when b is the smaller.
MinKeepingOne(a, b) == IF a < b THEN a ELSE IF b > 0 THEN b - 1 ELSE b

Min(a, b) == IF a < b THEN a ELSE b

SumChips(f) ==
    LET RECURSIVE S(_)
        S(n) == IF n < 0 THEN 0 ELSE f[n].chips + S(n - 1)
    IN S(max_players - 1)

\* The slot holding identity p, max_players when there is none.
SlotOf(p) ==
    IF \E i \in Slots : players[i] = p
    THEN CHOOSE i \in Slots : players[i] = p /\ \A j \in Slots : j < i => players[j] # p
    ELSE max_players

Ok(op, p, amt, done) ==
    lastOp' = [op |-> op, caller |-> p, amount |-> amt, ok |-> TRUE, completed |-> done]

\* A rejected instruction is recorded as rejected, whatever it was.
Rejected == [op |-> "rejected", caller |-> Empty, amount |-> 0, ok |-> FALSE, completed |-> FALSE]

\* Reject keeping start_game's first write, the table status.
RejectKeepingStatus(op, p, amt) ==
    /\ lastOp' = Rejected
    /\ status' = (IF op = "start" THEN "Playing" ELSE status)
    /\ UNCHANGED <<host, small_blind, big_blind, community_cards, pot, players, player_count, current_player_index,
                   dealer_index, round, highest_bet, ps, vault, accounts, acts, raises, hands>>

Reject(op, p, amt) ==
    /\ lastOp' = Rejected
    /\ UNCHANGED <<host, small_blind, big_blind, community_cards, status, pot, players, player_count, current_player_index,
                   dealer_index, round, highest_bet, ps, vault, accounts, acts, raises, hands>>

\* The state after create_table by identity 1 with blinds sb and bb.
TableCreated(sb, bb) ==
    /\ small_blind = sb
    /\ big_blind = bb
    /\ CreateRequirements
    /\ community_cards = <<0, 0, 0, 0, 0>>
    /\ host = 1
    /\ status = "Waiting"
    /\ pot = 0
    /\ current_player_index = 0
    /\ dealer_index = 0
    /\ round = "NotStarted"
    /\ highest_bet = 0
    /\ players = [i \in Slots |-> IF i = 0 THEN 1 ELSE Empty]
    /\ player_count = 1
    /\ ps = [i \in Slots |-> IF i = 0 THEN NewPlayerState(1) ELSE ZeroState]
    /\ vault = buy_in
    /\ accounts = {1}
    /\ acts = 0
    /\ raises = 0
    /\ hands = 0
    /\ lastOp = [op |-> "create", caller |-> 1, amount |-> 0, ok |-> TRUE, completed |-> FALSE]

Init == TableCreated(SmallBlind, BigBlind)

\* The same with each blind either 0 or the blind of Init.
InitBlinds ==
    \E sb \in {0, SmallBlind} : \E bb \in {0, BigBlind} : TableCreated(sb, bb)

\* FirstEmptySlot taking the highest-index empty slot.
LastEmptySlot ==
    IF \E i \in Slots : players[i] = Empty
    THEN CHOOSE i \in Slots : players[i] = Empty /\ \A j \in Slots : j > i => players[j] # Empty
    ELSE max_players

\* FirstEmptySlot taking the slot after the highest occupied one.
EmptySlotAfterLast ==
    IF \E i \in Slots : players[i] = Empty /\ \A j \in Slots : j >= i => players[j] = Empty
    THEN CHOOSE i \in Slots :
            /\ \A j \in Slots : j >= i => players[j] = Empty
            /\ (i = 0 \/ players[i - 1] # Empty)
    ELSE max_players

\* join_table: the lowest-index empty slot, max_players when there is none.
FirstEmptySlot ==
    IF \E i \in Slots : players[i] = Empty
    THEN CHOOSE i \in Slots : players[i] = Empty /\ \A j \in Slots : j < i => players[j] # Empty
    ELSE max_players

join_table(p) ==
    IF \/ p \in accounts            \* #[account(init)]: the PlayerState account exists already
       \/ status # "Waiting"
       \/ ~(player_count < max_players)
       \/ ~(FirstEmptySlot < max_players)
    THEN Reject("join", p, 0)
    ELSE /\ players' = [players EXCEPT ![FirstEmptySlot] = p]
         /\ player_count' = player_count + 1
         /\ vault' = vault + buy_in
         /\ ps' = [ps EXCEPT ![FirstEmptySlot] = NewPlayerState(p)]
         /\ accounts' = accounts \cup {p}
         /\ Ok("join", p, 0, FALSE)
         /\ UNCHANGED <<host, small_blind, big_blind, community_cards, status, pot, current_player_index, dealer_index,
                        round, highest_bet, acts, raises, hands>>

\* start_game's blind seats and first seat to act, from the dealer index d.
SbIndex(d) == (d + 1) % player_count
BbIndex(d) == (d + 2) % player_count
FirstToAct(d) == (BbIndex(d) + 1) % player_count

\* ---- generate_shuffled_deck ---------------------------------------------
\* A u64 is kept as its eight bytes, least significant first, so that the
\* wrapping 64-bit arithmetic is exact.
ByteBase == 256
U64Bytes == 8

\* The u64 of a number below 2^31.
U64(n) ==
    [k \in 1..U64Bytes |->
        CASE k = 1 -> n % ByteBase
          [] k = 2 -> (n \div ByteBase) % ByteBase
          [] k = 3 -> (n \div (ByteBase * ByteBase)) % ByteBase
          [] k = 4 -> n \div (ByteBase * ByteBase * ByteBase)
          [] OTHER -> 0]

\* u64::MAX, and the multiplier and increment of the generator.
U64Max == [k \in 1..U64Bytes |-> ByteBase - 1]
LcgMultiplier == <<45, 127, 149, 76, 45, 244, 81, 88>>
LcgIncrement == <<79, 129, 103, 247, 126, 123, 5, 20>>

\* The bytes of the column sums raw, carries propagated, the last carry dropped.
RECURSIVE Carried(_, _, _)
Carried(raw, k, carry) ==
    IF k > U64Bytes THEN <<>>
    ELSE <<(raw[k] + carry) % ByteBase>>
         \o Carried(raw, k + 1, (raw[k] + carry) \div ByteBase)

RECURSIVE ColumnSum(_, _, _, _)
ColumnSum(a, b, k, i) ==
    IF i > k THEN 0 ELSE a[i] * b[k - i + 1] + ColumnSum(a, b, k, i + 1)

wrapping_mul(a, b) == Carried([k \in 1..U64Bytes |-> ColumnSum(a, b, k, 1)], 1, 0)

wrapping_add(a, b) == Carried([k \in 1..U64Bytes |-> a[k] + b[k]], 1, 0)

\* a % u64::MAX.
ModU64Max(a) == IF a = U64Max THEN U64(0) ELSE a

\* a % m for a small m.
RECURSIVE ModSmallFrom(_, _, _, _)
ModSmallFrom(a, m, k, r) ==
    IF k < 1 THEN r ELSE ModSmallFrom(a, m, k - 1, (r * ByteBase + a[k]) % m)

ModSmall(a, m) == ModSmallFrom(a, m, U64Bytes, 0)

\* One step of the generator.
NextRng(rng) == ModU64Max(wrapping_add(wrapping_mul(rng, LcgMultiplier), LcgIncrement))

\* deck.swap(i, j) leaving deck[j] as it was.
SwapOverwriting(deck, i, j) == [deck EXCEPT ![i] = deck[j]]

\* deck.swap(i, j).
Swap(deck, i, j) == [deck EXCEPT ![i] = deck[j], ![j] = deck[i]]

\* The loop of the shuffle, from index i down to 1.
RECURSIVE ShuffleFrom(_, _, _)
ShuffleFrom(deck, rng, i) ==
    IF i < 1 THEN deck
    ELSE LET rng1 == NextRng(rng)
             j == ModSmall(rng1, i + 1)
             swapped == Swap(deck, i, j)
         IN IF j \in 0..i /\ swapped[i] \in 0..(DeckSize - 1)   \* indices in bounds
            THEN ShuffleFrom(swapped, rng1, i - 1)
            ELSE deck

generate_shuffled_deck(seed) ==
    ShuffleFrom([c \in 0..(DeckSize - 1) |-> c], seed, DeckSize - 1)

\* The decks of the seeds start_game is given.
Decks == [seed \in 0..MaxSeed |-> generate_shuffled_deck(U64(seed))]

\* start_game's deal: the number of occupied slots below slot i, the hole
\* cards of slot i and the community cards.
OccupiedBelow(i) == Cardinality({j \in Slots : j < i /\ players[j] # Empty})

HoleCardsOf(deck, i) ==
    <<deck[HoleCards * OccupiedBelow(i)], deck[HoleCards * OccupiedBelow(i) + 1]>>

CommunityCardsOf(deck) ==
    LET card_index == HoleCards * OccupiedBelow(max_players) IN
    [k \in 1..CommunityCards |-> deck[card_index + k - 1]]

Dealt(f, deck) ==
    [i \in Slots |->
        IF players[i] # Empty THEN [f[i] EXCEPT !.cards = HoleCardsOf(deck, i)] ELSE f[i]]

\* One of start_game's two checked subtractions of a blind panics.
BlindDebitPanics(seed) ==
    LET d == seed % player_count
        sb == SbIndex(d)
        bb == BbIndex(d)
        after_sb == [ps EXCEPT ![sb].chips = @ - small_blind]
    IN \/ ps[sb].chips < small_blind
       \/ after_sb[bb].chips < big_blind

\* The Table fields start_game has written to its working copy of the
\* account by the time it reaches the checked subtractions.
StartWritesAtPanic(seed) ==
    LET d == seed % player_count IN
    [status |-> "Playing", round |-> "PreFlop", dealer_index |-> d,
     current_player_index |-> FirstToAct(d)]

start_game(p, seed) ==
    LET d == seed % player_count
        sb == SbIndex(d)
        bb == BbIndex(d)
        ps1 == [ps EXCEPT ![sb].current_bet = small_blind,
                          ![sb].chips = @ - small_blind]
        ps2 == [ps1 EXCEPT ![bb].current_bet = big_blind,
                           ![bb].chips = @ - big_blind]
    IN
    IF \/ p # host                                  \* has_one = host, NotTableHost
       \/ status # "Waiting"
       \/ ~(player_count >= MinPlayersToStart)
    THEN Reject("start", p, seed)
    ELSE IF BlindDebitPanics(seed)                  \* checked_sub(..).unwrap() panics
    THEN Reject("start", p, seed)
    ELSE /\ status' = "Playing"
         /\ round' = "PreFlop"
         /\ dealer_index' = d
         /\ current_player_index' = FirstToAct(d)
         /\ ps' = Dealt(ps2, Decks[seed])
         /\ community_cards' = CommunityCardsOf(Decks[seed])
         /\ pot' = small_blind + big_blind
         /\ highest_bet' = big_blind
         /\ hands' = hands + 1
         /\ Ok("start", p, seed, FALSE)
         /\ UNCHANGED <<host, small_blind, big_blind, players, player_count, vault, accounts, acts, raises>>

\* advance_to_next_player: the index the loop stops at, started at index start.
RECURSIVE AdvanceScan(_, _)
AdvanceScan(start, cur) ==
    LET nxt == (cur + 1) % player_count IN
    IF nxt = start THEN nxt
    ELSE IF players[nxt] # Empty THEN nxt
    ELSE AdvanceScan(start, nxt)

advance_to_next_player == AdvanceScan(current_player_index, current_player_index)

\* RoundComplete with the all-in exclusion left out.
RoundCompleteCountsAllIn(f, hb) ==
    \A i \in Slots :
        (players[i] # Empty /\ ~f[i].is_folded /\ f[i].is_active)
        => ~(f[i].current_bet < hb)

\* RoundComplete stopping at the first seat that has matched the bet.
RoundCompleteAnyMatched(f, hb) ==
    \E i \in Slots :
        /\ players[i] # Empty
        /\ ~f[i].is_folded /\ f[i].is_active /\ ~f[i].is_all_in
        /\ ~(f[i].current_bet < hb)

\* check_round_completion's test over the accounts f and highest bet hb.
RoundComplete(f, hb) ==
    \A i \in Slots :
        (/\ players[i] # Empty
         /\ ~f[i].is_folded /\ f[i].is_active /\ ~f[i].is_all_in)
        => ~(f[i].current_bet < hb)

NextRound(r) ==
    CASE r = "PreFlop" -> "Flop"
      [] r = "Flop" -> "Turn"
      [] r = "Turn" -> "River"
      [] r = "River" -> "Showdown"
      [] OTHER -> r

\* The seat the turn goes to when a round completes.
AfterDealer == (dealer_index + 1) % player_count

\* check_round_completion paying the pot to the seat after the dealer when
\* the round becomes Showdown.
check_round_completionSettling(f, hb) ==
    IF RoundComplete(f, hb)
    THEN /\ ps' = [i \in Slots |->
                     [f[i] EXCEPT !.current_bet = 0,
                                  !.chips = IF round = "River" /\ i = AfterDealer
                                            THEN @ + pot ELSE @]]
         /\ highest_bet' = 0
         /\ round' = NextRound(round)
         /\ current_player_index' = AfterDealer
    ELSE /\ ps' = f
         /\ highest_bet' = hb
         /\ round' = round
         /\ current_player_index' = advance_to_next_player

\* check_round_completion, run on the accounts f and highest bet hb that the
\* calling instruction has produced, after advance_to_next_player.
check_round_completion(f, hb) ==
    IF RoundComplete(f, hb)
    THEN /\ ps' = [i \in Slots |-> [f[i] EXCEPT !.current_bet = 0]]
         /\ highest_bet' = 0
         /\ round' = NextRound(round)
         /\ current_player_index' = AfterDealer
    ELSE /\ ps' = f
         /\ highest_bet' = hb
         /\ round' = round
         /\ current_player_index' = advance_to_next_player

\* IsPlayersTurn comparing with the dealer's seat instead of the turn pointer.
IsDealersTurn(p) == players[dealer_index] = p

\* The checks every PlayerAction instruction starts with.
IsPlayersTurn(p) == players[current_player_index] = p

MayAct(p) ==
    /\ p \in accounts                    \* the signer's player_state account exists
    /\ status = "Playing"
    /\ SlotOf(p) < max_players           \* an account that left the table is inactive
    /\ ~ps[SlotOf(p)].is_folded
    /\ ps[SlotOf(p)].is_active
    /\ IsPlayersTurn(p)

\* BetSizeOk without the minimum raise.
BetSizeOkNoMinRaise(amount) == amount >= highest_bet

\* bet's minimum raise rule.
BetSizeOk(amount) ==
    IF amount > highest_bet
    THEN amount >= highest_bet + big_blind
    ELSE amount = highest_bet

bet(p, amount) ==
    IF ~MayAct(p) THEN Reject("bet", p, amount)
    ELSE
    LET i == SlotOf(p) IN
    IF \/ amount < ps[i].current_bet                 \* checked_sub(..).unwrap() panics
       \/ ~(ps[i].chips >= amount - ps[i].current_bet)
       \/ ~BetSizeOk(amount)
    THEN Reject("bet", p, amount)
    ELSE
    LET additional_bet == amount - ps[i].current_bet
        f == [ps EXCEPT ![i].chips = @ - additional_bet, ![i].current_bet = amount]
        hb == IF amount > highest_bet THEN amount ELSE highest_bet
    IN /\ pot' = pot + additional_bet
       /\ check_round_completion(f, hb)
       /\ acts' = acts + 1
       /\ raises' = IF amount > highest_bet THEN raises + 1 ELSE raises
       /\ UNCHANGED hands
       /\ Ok("bet", p, amount, RoundComplete(f, hb))
       /\ UNCHANGED <<host, small_blind, big_blind, community_cards, status, players, player_count, dealer_index,
                      vault, accounts>>

check(p) ==
    IF ~MayAct(p) THEN Reject("check", p, 0)
    ELSE
    LET i == SlotOf(p) IN
    IF ~(highest_bet = 0 \/ ps[i].current_bet = highest_bet)
    THEN Reject("check", p, 0)
    ELSE /\ check_round_completion(ps, highest_bet)
         /\ Ok("check", p, 0, RoundComplete(ps, highest_bet))
         /\ acts' = acts + 1
         /\ UNCHANGED <<raises, hands>>
         /\ UNCHANGED <<host, small_blind, big_blind, community_cards, status, pot, players, player_count, dealer_index,
                        vault, accounts>>

call(p) ==
    IF ~MayAct(p) THEN Reject("call", p, 0)
    ELSE
    LET i == SlotOf(p) IN
    IF highest_bet < ps[i].current_bet               \* checked_sub(..).unwrap() panics
    THEN Reject("call", p, 0)
    ELSE
    LET call_amount == highest_bet - ps[i].current_bet
        actual_call == Min(call_amount, ps[i].chips)
        f == [ps EXCEPT ![i].chips = @ - actual_call,
                        ![i].current_bet = @ + actual_call,
                        ![i].is_all_in = IF actual_call < call_amount THEN TRUE ELSE @]
    IN /\ pot' = pot + actual_call
       /\ check_round_completion(f, highest_bet)
       /\ Ok("call", p, 0, RoundComplete(f, highest_bet))
       /\ acts' = acts + 1
       /\ UNCHANGED <<raises, hands>>
       /\ UNCHANGED <<host, small_blind, big_blind, community_cards, status, players, player_count, dealer_index,
                      vault, accounts>>

\* count_active_players without the is_folded test.
count_active_playersWithFolded(f) ==
    Cardinality({i \in Slots : players[i] # Empty /\ f[i].is_active})

\* count_active_players over the accounts f.
count_active_players(f) ==
    Cardinality({i \in Slots : players[i] # Empty /\ ~f[i].is_folded /\ f[i].is_active})

\* FirstContender without the is_folded test.
FirstActive(f) ==
    CHOOSE i \in Slots :
        /\ f[i].is_active
        /\ \A j \in Slots : j < i => ~f[j].is_active

\* fold's winner loop: the first account that is active and not folded.
FirstContender(f) ==
    CHOOSE i \in Slots :
        /\ f[i].is_active /\ ~f[i].is_folded
        /\ \A j \in Slots : j < i => ~(f[j].is_active /\ ~f[j].is_folded)

fold(p) ==
    IF ~MayAct(p) THEN Reject("fold", p, 0)
    ELSE
    LET i == SlotOf(p)
        f == [ps EXCEPT ![i].is_folded = TRUE]
    IN
    IF count_active_players(f) = 1
    THEN /\ ps' = [f EXCEPT ![FirstContender(f)].chips = @ + pot]
         /\ current_player_index' = advance_to_next_player
         /\ status' = "Finished"
         /\ Ok("fold", p, 0, FALSE)
         /\ acts' = acts + 1
         /\ UNCHANGED <<raises, hands>>
         /\ UNCHANGED <<host, small_blind, big_blind, community_cards, pot, players, player_count, dealer_index, round,
                        highest_bet, vault, accounts>>
    ELSE /\ check_round_completion(f, highest_bet)
         /\ Ok("fold", p, 0, RoundComplete(f, highest_bet))
         /\ acts' = acts + 1
         /\ UNCHANGED <<raises, hands>>
         /\ UNCHANGED <<host, small_blind, big_blind, community_cards, status, pot, players, player_count, dealer_index,
                        vault, accounts>>

\* evaluate_poker_hand: the placeholder value, whatever the cards.
evaluate_poker_hand(cards) == StubHandValue

\* showdown's scan: the winners in scan order, from slot i on.
RECURSIVE ShowdownScan(_, _, _)
ShowdownScan(i, best_hand_value, winners) ==
    IF i >= max_players THEN winners
    ELSE IF players[i] = Empty THEN ShowdownScan(i + 1, best_hand_value, winners)
    ELSE IF ps[i].is_folded \/ ~ps[i].is_active
         THEN ShowdownScan(i + 1, best_hand_value, winners)
    ELSE LET hand_value == evaluate_poker_hand(ps[i].cards \o community_cards) IN
         IF hand_value > best_hand_value
         THEN ShowdownScan(i + 1, hand_value, <<i>>)
         ELSE IF hand_value = best_hand_value
         THEN ShowdownScan(i + 1, best_hand_value, Append(winners, i))
         ELSE ShowdownScan(i + 1, best_hand_value, winners)

Winners == ShowdownScan(0, 0, <<>>)

InSeq(x, s) == \E k \in 1..Len(s) : s[k] = x

\* ShowdownCredit giving the remainder to every winner.
ShowdownCreditRemainderToAll(i, winners) ==
    IF ~InSeq(i, winners) THEN 0
    ELSE (pot \div Len(winners)) + (pot % Len(winners))

\* ShowdownCredit without the remainder.
ShowdownCreditShareOnly(i, winners) ==
    IF ~InSeq(i, winners) THEN 0 ELSE pot \div Len(winners)

\* What showdown adds to the chips of slot i: the share, and the remainder
\* for the first winner.
ShowdownCredit(i, winners) ==
    IF ~InSeq(i, winners) THEN 0
    ELSE (pot \div Len(winners))
         + (IF i = winners[1] THEN pot % Len(winners) ELSE 0)

\* ShowdownAllowed without the status test.
ShowdownAllowedAnyStatus == round = "Showdown"

\* showdown's two require! lines.
ShowdownAllowed == status = "Playing" /\ round = "Showdown"

showdown(p) ==
    IF \/ p # host                                   \* has_one = host
       \/ ~ShowdownAllowed
    THEN Reject("showdown", p, 0)
    ELSE IF Len(Winners) = 0                         \* division by zero panics
    THEN Reject("showdown", p, 0)
    ELSE /\ ps' = [i \in Slots |-> [ps[i] EXCEPT !.chips = @ + ShowdownCredit(i, Winners)]]
         /\ status' = "Finished"
         /\ Ok("showdown", p, 0, FALSE)
         /\ UNCHANGED <<host, small_blind, big_blind, community_cards, pot, players, player_count, current_player_index,
                        dealer_index, round, highest_bet, vault, accounts, acts, raises, hands>>

\* ResetPlayerState leaving the fold flag as it is.
ResetPlayerStateKeepingFold(s) ==
    IF s.is_active
    THEN [s EXCEPT !.current_bet = 0, !.is_all_in = FALSE]
    ELSE s

\* reset_table's loop body: what it does to one PlayerState account.
ResetPlayerState(s) ==
    IF s.is_active
    THEN [s EXCEPT !.is_folded = FALSE, !.current_bet = 0, !.is_all_in = FALSE]
    ELSE s

reset_table(p) ==
    IF \/ p # host                                   \* has_one = host, NotTableHost
       \/ status # "Finished"
    THEN Reject("reset", p, 0)
    ELSE /\ status' = "Waiting"
         /\ pot' = 0
         /\ round' = "NotStarted"
         /\ highest_bet' = 0
         /\ ps' = [i \in Slots |-> ResetPlayerState(ps[i])]
         /\ Ok("reset", p, 0, FALSE)
         /\ UNCHANGED <<host, small_blind, big_blind, community_cards, players, player_count, current_player_index,
                        dealer_index, vault, accounts, acts, raises, hands>>

\* leave_table's new host: the first occupied slot of the seats left.
NewHost(p, seats) ==
    IF p = host /\ \E i \in Slots : seats[i] # Empty /\ seats[i] # p
    THEN seats[CHOOSE i \in Slots :
                 /\ seats[i] # Empty /\ seats[i] # p
                 /\ \A j \in Slots : j < i => ~(seats[j] # Empty /\ seats[j] # p)]
    ELSE host

\* LeaveAllowed without the status test.
LeaveAllowedAnyStatus == TRUE

\* leave_table's require! on the table status.
LeaveAllowed == status = "Waiting" \/ status = "Finished"

leave_table(p) ==
    IF \/ p \notin accounts                          \* no player_state account
       \/ ~LeaveAllowed
       \/ ~(SlotOf(p) < max_players)
    THEN Reject("leave", p, 0)
    ELSE
    LET i == SlotOf(p)
        seats == [players EXCEPT ![i] = Empty]
    IN
    IF vault < ps[i].chips                           \* token::transfer fails
    THEN Reject("leave", p, 0)
    ELSE /\ players' = seats
         /\ player_count' = player_count - 1
         /\ vault' = vault - ps[i].chips
         /\ ps' = [ps EXCEPT ![i].is_active = FALSE, ![i].chips = 0]
         /\ host' = IF player_count - 1 > 0 THEN NewHost(p, seats) ELSE host
         /\ Ok("leave", p, 0, FALSE)
         /\ UNCHANGED <<small_blind, big_blind, community_cards, status, pot, current_player_index, dealer_index, round,
                        highest_bet, accounts, acts, raises, hands>>

\* ---- inputs --------------------------------------------------------------
\* Identities are interchangeable: a signer without an account is the least
\* identity that has none.
Signers == accounts \cup {p \in Players : \A q \in Players : q < p => q \in accounts}

\* The amounts tried by bet: around highest_bet, the minimum raise, and the
\* whole stack of the seat whose turn it is.
BetAmounts ==
    LET c == ps[current_player_index] IN
    {a \in {highest_bet - 1, highest_bet, highest_bet + 1, highest_bet + big_blind,
            c.current_bet + c.chips, c.current_bet + c.chips + 1} : a >= 0}

Next ==
    \/ \E p \in Signers : join_table(p)
    \/ \E p \in Signers : \E seed \in 0..MaxSeed : hands < MaxHands /\ start_game(p, seed)
    \/ \E p \in Signers : \E amount \in BetAmounts :
          acts < MaxActs /\ (amount > highest_bet => raises < MaxRaises) /\ bet(p, amount)
    \/ \E p \in Signers : acts < MaxActs /\ check(p)
    \/ \E p \in Signers : acts < MaxActs /\ call(p)
    \/ \E p \in Signers : acts < MaxActs /\ fold(p)
    \/ \E p \in Signers : showdown(p)
    \/ \E p \in Signers : reset_table(p)
    \/ \E p \in Signers : Cardinality(accounts) - player_count < MaxLeaves /\ leave_table(p)

Spec == Init /\ [][Next]_vars

\* Seating: joins and leaves without a bound on the leaves, and hands that
\* are started, folded out and reset.
NextSeating ==
    \/ \E p \in Signers : join_table(p)
    \/ \E p \in Signers : \E seed \in 0..MaxSeed : hands < MaxHands /\ start_game(p, seed)
    \/ \E p \in Signers : acts < MaxActs /\ fold(p)
    \/ \E p \in Signers : reset_table(p)
    \/ \E p \in Signers : leave_table(p)

SpecSeating == Init /\ [][NextSeating]_vars

\* The same instructions on a table created with or without blinds.
SpecBlinds == InitBlinds /\ [][Next]_vars

\* ---- properties -----------------------------------------------------------
BettingOps == {"bet", "check", "call", "fold"}

\* The seats still contending for the pot, over the accounts f.
Contenders(f) ==
    {i \in Slots : players[i] # Empty /\ f[i].is_active /\ ~f[i].is_folded}

\* C1: conservation. In every reachable state pot plus the chips of all
\* seats equals the funds deposited minus the funds withdrawn (the vault).
C1_Conservation == pot + SumChips(ps) = vault

\* C2: turn integrity. A bet, check, call or fold succeeds only for the
\* identity at players[current_player_index]; a rejected instruction leaves
\* every Table field and every PlayerState field unchanged.
C2_TurnIntegrity ==
    [][/\ (lastOp'.ok /\ lastOp'.op \in BettingOps)
            => lastOp'.caller = players[current_player_index]
       /\ ~lastOp'.ok => UNCHANGED <<tableVars, ps, vault, accounts>>]_vars

C2_Witness ==
    /\ lastOp.ok /\ lastOp.op \in BettingOps
    /\ player_count >= 3
    /\ status = "Playing"

\* C3: while a hand is played, current_player_index addresses an occupied slot.
C3_CurrentSeatOccupied ==
    status = "Playing" => players[current_player_index] # Empty

\* C4: with highest_bet = 0 and two contending seats that have bet nothing,
\* two checks complete the round once: they do not each complete a round.
C4_TwoChecksCompleteOnce ==
    [][(/\ lastOp.ok /\ lastOp.op = "check"
        /\ lastOp'.ok /\ lastOp'.op = "check"
        /\ status = "Playing" /\ round \in {"Flop", "Turn", "River"}
        /\ highest_bet = 0
        /\ Cardinality(Contenders(ps)) = 2
        /\ \A i \in Contenders(ps) : ps[i].current_bet = 0)
       => ~(lastOp.completed /\ lastOp'.completed)]_vars

\* C5: fold to one winner. A successful fold that leaves exactly one
\* contending seat adds the whole pot to that seat's chips, changes no other
\* seat's chips and finishes the hand, in that same step and in any round.
C5_FoldToOneWinner ==
    [][(lastOp'.ok /\ lastOp'.op = "fold" /\ Cardinality(Contenders(ps')) = 1)
       => /\ \A i \in Slots :
                ps'[i].chips = ps[i].chips + (IF i \in Contenders(ps') THEN pot ELSE 0)
          /\ status' = "Finished"
          /\ round' = round]_vars

C5_Witness ==
    /\ lastOp.ok /\ lastOp.op = "fold"
    /\ status = "Finished"
    /\ player_count = 3
    /\ Cardinality(Contenders(ps)) = 1

\* The least element of a non-empty set of slots.
LowestOf(S) == CHOOSE i \in S : \A j \in S : i <= j

\* C6: showdown split. A successful showdown with n tied winners (every
\* contending seat, the evaluator being constant) credits each pot div n,
\* the lowest-index winner pot mod n more, nobody else anything; the credits
\* sum to the pot and the hand is finished.
C6_ShowdownSplit ==
    [][(lastOp'.ok /\ lastOp'.op = "showdown")
       => LET W == Contenders(ps)
              n == Cardinality(W)
          IN /\ n >= 1
             /\ \A i \in Slots :
                   ps'[i].chips = ps[i].chips
                       + (IF i \in W THEN pot \div n ELSE 0)
                       + (IF i \in W /\ i = LowestOf(W) THEN pot % n ELSE 0)
             /\ SumChips(ps') = SumChips(ps) + pot
             /\ status' = "Finished"]_vars

C6_Witness ==
    /\ lastOp.ok /\ lastOp.op = "showdown"
    /\ Cardinality(Contenders(ps)) >= 2
    /\ pot % Cardinality(Contenders(ps)) # 0

\* C7: no double settlement. Showdown succeeds only when status is Playing
\* and round is Showdown; chips are credited out of the pot only in a step
\* that takes the table from Playing to Finished; once Finished, no bet,
\* check, call, fold or showdown succeeds, and the table plays again only
\* after reset (to Waiting) and start.
C7_NoDoubleSettlement ==
    [][/\ (lastOp'.ok /\ lastOp'.op = "showdown")
            => (status = "Playing" /\ round = "Showdown")
       /\ (lastOp'.ok /\ lastOp'.op \in BettingOps \cup {"showdown"})
            => status = "Playing"
       /\ (lastOp'.op # "join" /\ \E i \in Slots : ps'[i].chips > ps[i].chips)
            => (status = "Playing" /\ status' = "Finished")
       /\ status = "Finished"
            => (status' = "Finished" \/ (status' = "Waiting" /\ lastOp'.op = "reset"))
       /\ (status # "Playing" /\ status' = "Playing")
            => (status = "Waiting" /\ lastOp'.op = "start")]_vars

C7_Witness ==
    /\ hands = 2
    /\ status = "Finished"
    /\ lastOp.ok /\ lastOp.op \in {"fold", "showdown"}

\* C8: minimum raise. A bet succeeds only with amount = highest_bet or
\* amount >= highest_bet + big_blind; and the seat whose turn it is, with
\* chips for it, can bet highest_bet and can bet highest_bet + big_blind.
C8_BetAccepted(amount) ==
    \A p \in Players :
        (/\ MayAct(p)
         /\ amount >= ps[SlotOf(p)].current_bet
         /\ ps[SlotOf(p)].chips >= amount - ps[SlotOf(p)].current_bet)
        => ENABLED (bet(p, amount) /\ lastOp'.ok)

C8_MinimumRaise ==
    /\ [][(lastOp'.ok /\ lastOp'.op = "bet")
          => \/ lastOp'.amount = highest_bet
             \/ lastOp'.amount >= highest_bet + big_blind]_vars
    /\ [](C8_BetAccepted(highest_bet) /\ C8_BetAccepted(highest_bet + big_blind))

C8_Witness ==
    /\ lastOp.ok /\ lastOp.op = "bet"
    /\ status = "Playing" /\ ~lastOp.completed
    /\ lastOp.amount = highest_bet
    /\ highest_bet >= 2 * big_blind

\* An all-in call: the step is a successful call by the seat whose turn it
\* is, which had fewer chips than the call needed.
AllInCall ==
    /\ lastOp'.ok /\ lastOp'.op = "call"
    /\ ps[current_player_index].chips
          < highest_bet - ps[current_player_index].current_bet

\* While a round is left incomplete, some contending seat that is not all-in
\* is below highest_bet: an all-in seat alone never holds the round open.
C9_AllInNeverBlocks ==
    /\ \A i \in Slots :
          (status = "Playing" /\ status' = "Playing" /\ ps[i].is_all_in)
          => ps'[i].is_all_in
    /\ (lastOp'.ok /\ lastOp'.op \in BettingOps /\ ~lastOp'.completed
           /\ status' = "Playing")
       => \E i \in Contenders(ps') :
             ~ps'[i].is_all_in /\ ps'[i].current_bet < highest_bet'

\* C9 (as claimed): an all-in call leaves chips 0, current_bet and pot each
\* larger by the former chips and is_all_in set; and an all-in seat never
\* holds a round open.
C9_AllInOnCall_Original ==
    [][/\ AllInCall
          => LET i == current_player_index IN
             /\ ps'[i].chips = 0
             /\ ps'[i].current_bet = ps[i].current_bet + ps[i].chips
             /\ pot' = pot + ps[i].chips
             /\ ps'[i].is_all_in
       /\ C9_AllInNeverBlocks]_vars

\* C9 (amended): as claimed, except that when the all-in call itself
\* completes the round, current_bet is reset to 0 with every other seat's.
C9_AllInOnCall ==
    [][/\ AllInCall
          => LET i == current_player_index IN
             /\ ps'[i].chips = 0
             /\ ps'[i].current_bet =
                   (IF lastOp'.completed THEN 0 ELSE ps[i].current_bet + ps[i].chips)
             /\ pot' = pot + ps[i].chips
             /\ ps'[i].is_all_in
       /\ C9_AllInNeverBlocks]_vars

C9_Witness ==
    /\ lastOp.ok /\ lastOp.op = "call" /\ lastOp.completed
    /\ status = "Playing"
    /\ \E i \in Slots :
          /\ players[i] = lastOp.caller
          /\ ps[i].is_all_in /\ ps[i].chips = 0

\* The bet of seat i and the highest bet at check_round_completion's test
\* in a step by the seat whose turn it is, from the state before the step.
BetAtTest(i) ==
    IF i # current_player_index THEN ps[i].current_bet
    ELSE IF lastOp'.op = "bet" THEN lastOp'.amount
    ELSE IF lastOp'.op = "call"
         THEN ps[i].current_bet + Min(highest_bet - ps[i].current_bet, ps[i].chips)
    ELSE ps[i].current_bet

HighestAtTest ==
    IF lastOp'.op = "bet" /\ lastOp'.amount > highest_bet
    THEN lastOp'.amount ELSE highest_bet

\* C10: while a hand is played no contending seat that is not all-in has
\* current_bet above highest_bet, and a round completes only when every
\* such seat's current_bet equals highest_bet.
C10_BetsWithinHighest ==
    [][/\ status' = "Playing"
          => \A i \in Contenders(ps') :
                ~ps'[i].is_all_in => ps'[i].current_bet <= highest_bet'
       /\ (lastOp'.ok /\ lastOp'.op \in BettingOps /\ lastOp'.completed)
          => \A i \in Contenders(ps') :
                ~ps'[i].is_all_in => BetAtTest(i) = HighestAtTest]_vars

C10_Witness ==
    /\ lastOp.ok /\ lastOp.op = "call" /\ lastOp.completed
    /\ status = "Playing"
    /\ player_count >= 3
    /\ pot > BuyInFactor

\* C11: right after a successful start, dealer_index, the small-blind index
\* and the big-blind index each address an occupied slot, and the two blind
\* seats are distinct.
C11_StartSeatsOccupied ==
    (lastOp.ok /\ lastOp.op = "start")
    => /\ players[dealer_index] # Empty
       /\ players[SbIndex(dealer_index)] # Empty
       /\ players[BbIndex(dealer_index)] # Empty
       /\ SbIndex(dealer_index) # BbIndex(dealer_index)

\* C12: while a hand is played at least two seats contend, and whenever
\* showdown's requirements hold its scan finds at least one winner, so the
\* pot is never divided by zero.
C12_ShowdownHasWinner ==
    /\ status = "Playing" => Cardinality(Contenders(ps)) >= 2
    /\ ShowdownAllowed => Len(Winners) >= 1

C12_Witness ==
    /\ ShowdownAllowed
    /\ player_count >= 3
    /\ \E i \in Slots : players[i] # Empty /\ ps[i].is_folded

\* start_game passes its require! lines and then panics on a blind.
StartPanicsFor(seed) ==
    /\ status = "Waiting"
    /\ player_count >= MinPlayersToStart
    /\ BlindDebitPanics(seed)

\* A rejected instruction leaves every account as it was.
C13_RejectionChangesNothing ==
    ~lastOp'.ok => UNCHANGED <<tableVars, ps, vault, accounts>>

LowestEmpty(seats) ==
    IF \E i \in Slots : seats[i] = Empty
    THEN LowestOf({i \in Slots : seats[i] = Empty})
    ELSE max_players

\* C14: a leave succeeds only when status is Waiting or Finished, never
\* while a hand is played; it empties the leaver's slot, decrements
\* player_count, withdraws exactly the seat's chips from the vault, leaves
\* the seat with chips 0 and inactive, and changes no other seat.
C14_Leave ==
    [][(lastOp'.ok /\ lastOp'.op = "leave")
       => \E i \in Slots :
             /\ players[i] = lastOp'.caller
             /\ status \in {"Waiting", "Finished"}
             /\ status' = status
             /\ players' = [players EXCEPT ![i] = Empty]
             /\ player_count' = player_count - 1
             /\ vault' = vault - ps[i].chips
             /\ ps'[i].chips = 0 /\ ~ps'[i].is_active
             /\ \A j \in Slots \ {i} : ps'[j] = ps[j]]_vars

C14_Witness ==
    /\ lastOp.ok /\ lastOp.op = "leave"
    /\ status = "Finished"
    /\ vault > player_count * buy_in

\* C15: a join succeeds only when status is Waiting and player_count is
\* below max_players; the joiner takes the lowest-index empty slot, every
\* other slot and account is unchanged, player_count grows by one, and the
\* new seat is active, not folded, with chips = buy_in and current_bet = 0.
C15_Join ==
    [][(lastOp'.ok /\ lastOp'.op = "join")
       => LET i == LowestEmpty(players) IN
          /\ status = "Waiting" /\ player_count < max_players
          /\ i < max_players
          /\ players' = [players EXCEPT ![i] = lastOp'.caller]
          /\ player_count' = player_count + 1
          /\ ps'[i].is_active /\ ~ps'[i].is_folded
          /\ ps'[i].chips = buy_in /\ ps'[i].current_bet = 0
          /\ \A j \in Slots \ {i} : ps'[j] = ps[j]]_vars

C15_Witness ==
    /\ lastOp.ok /\ lastOp.op = "join"
    /\ \E i \in Slots :
          /\ players[i] = lastOp.caller
          /\ \E j \in Slots : j > i /\ players[j] # Empty
          /\ \E j \in Slots : j > i /\ players[j] = Empty

\* C16 (as claimed): right after a successful leave the vacated index is
\* the lowest-index empty slot.
C16_SeatReuse_Original ==
    [][(lastOp'.ok /\ lastOp'.op = "leave")
       => \E i \in Slots :
             players[i] = lastOp'.caller /\ LowestEmpty(players') = i]_vars

\* C16 (amended): right after a successful leave that vacates index i the
\* lowest-index empty slot is at most i, and is i exactly when no slot below
\* i was empty already; a join occupies the lowest-index empty slot.
C16_SeatReuse ==
    [][/\ (lastOp'.ok /\ lastOp'.op = "leave")
          => \E i \in Slots :
                /\ players[i] = lastOp'.caller
                /\ LowestEmpty(players') <= i
                /\ (LowestEmpty(players') = i
                      <=> \A j \in Slots : j < i => players[j] # Empty)
       /\ (lastOp'.ok /\ lastOp'.op = "join")
          => /\ LowestEmpty(players) < max_players
             /\ players'[LowestEmpty(players)] = lastOp'.caller]_vars

C16_Witness ==
    /\ lastOp.ok /\ lastOp.op = "leave"
    /\ \E i \in Slots :
          /\ players[i] = Empty /\ ps[i].player = lastOp.caller
          /\ LowestEmpty(players) < i
          /\ \E j \in Slots : j > i /\ players[j] # Empty

\* C17: player_count is the number of non-empty slots, and a slot is
\* non-empty exactly when the account at its index is active (and is then
\* the account of the identity in the slot).
C17_SeatCount ==
    /\ player_count = Cardinality({i \in Slots : players[i] # Empty})
    /\ \A i \in Slots :
          /\ players[i] # Empty <=> ps[i].is_active
          /\ players[i] # Empty => ps[i].player = players[i]

C17_Witness ==
    /\ lastOp.ok /\ lastOp.op = "join"
    /\ Cardinality(accounts) >= player_count + 2
    /\ \E i \in Slots : players[i] = Empty /\ ps[i].player # Empty

\* C18: whenever a seat is occupied the host is an identity seated at the
\* table.
C18_HostSeated ==
    player_count > 0 => \E i \in Slots : players[i] = host

\* The step makes the round Showdown.
BecomesShowdown == round # "Showdown" /\ round' = "Showdown"

\* Chips are credited only by showdown or by the fold that leaves one
\* contending seat (and granted by join).
C19_CreditsOnlyBySettlement ==
    (\E i \in Slots : ps'[i].chips > ps[i].chips)
    => \/ lastOp'.op = "join"
       \/ lastOp'.op = "showdown"
       \/ lastOp'.op = "fold" /\ Cardinality(Contenders(ps')) = 1

\* C19 (as claimed): the step in which round becomes Showdown leaves status
\* Playing and leaves the pot and every seat's chips unchanged.
C19_NoAutoSettle_Original ==
    [][/\ BecomesShowdown
          => /\ status' = "Playing"
             /\ pot' = pot
             /\ \A i \in Slots : ps'[i].chips = ps[i].chips
       /\ C19_CreditsOnlyBySettlement]_vars

\* C19 (amended): the step in which round becomes Showdown leaves status
\* Playing and credits no seat; the pot and the chips change only by what
\* the bet or call that completes the River round moves from the acting
\* seat into the pot, and not at all when a check or fold completes it.
C19_NoAutoSettle ==
    [][/\ BecomesShowdown
          => /\ status' = "Playing"
             /\ \A i \in Slots : ps'[i].chips <= ps[i].chips
             /\ \A i \in Slots \ {current_player_index} : ps'[i].chips = ps[i].chips
             /\ pot' + SumChips(ps') = pot + SumChips(ps)
             /\ lastOp'.op \in {"check", "fold"}
                   => pot' = pot /\ \A i \in Slots : ps'[i].chips = ps[i].chips
       /\ C19_CreditsOnlyBySettlement]_vars

C19_Witness ==
    /\ lastOp.ok /\ lastOp.op \in {"bet", "call"} /\ lastOp.completed
    /\ round = "Showdown" /\ status = "Playing"
    /\ highest_bet = 0
    /\ pot > small_blind + big_blind + big_blind

\* C20: a reset succeeds only for the host and when status is Finished; it
\* leaves status Waiting, round NotStarted, pot 0 and highest_bet 0, every
\* active seat not folded, not all-in and with current_bet 0, and every
\* seat's chips, the seat array and player_count as they were.
C20_Reset ==
    [][(lastOp'.ok /\ lastOp'.op = "reset")
       => /\ status = "Finished" /\ lastOp'.caller = host
          /\ status' = "Waiting" /\ round' = "NotStarted"
          /\ pot' = 0 /\ highest_bet' = 0
          /\ \A i \in Slots :
                ps'[i].is_active
                => ~ps'[i].is_folded /\ ~ps'[i].is_all_in /\ ps'[i].current_bet = 0
          /\ \A i \in Slots : ps'[i].chips = ps[i].chips
          /\ players' = players /\ player_count' = player_count]_vars

C20_Witness ==
    /\ lastOp.ok /\ lastOp.op = "reset"
    /\ player_count >= 3
    /\ \E i \in Slots : players[i] # Empty /\ ps[i].chips > buy_in
    /\ \E i \in Slots : players[i] # Empty /\ ps[i].chips < buy_in - big_blind

\* The card codes, and a deck holding each of them once.
CardCodes == 0..(DeckSize - 1)

IsPermutation(deck) ==
    /\ DOMAIN deck = CardCodes
    /\ {deck[k] : k \in CardCodes} = CardCodes

\* Seeds the shuffle is tried on: the small ones, and three that fill all
\* eight bytes.
ShuffleSeeds ==
    {U64(n) : n \in 0..MaxShuffleSeed} \cup {U64Max, LcgMultiplier, LcgIncrement}

ShufflesArePermutations ==
    \A seed \in ShuffleSeeds : IsPermutation(generate_shuffled_deck(seed))

\* The cards in play: the hole cards of the occupied seats and the
\* community cards.
CardsInPlay ==
    {ps[i].cards[k] : i \in {j \in Slots : players[j] # Empty}, k \in 1..HoleCards}
    \cup {community_cards[k] : k \in 1..CommunityCards}

\* C21: the shuffle returns a permutation of the 52 card codes for every
\* seed; right after a successful start the hole cards of the occupied
\* seats are the first cards of the deck of the start's seed, two per
\* occupied seat in slot order, the community cards are the five after
\* them, and all these cards are pairwise distinct.
C21_Deal ==
    /\ ShufflesArePermutations
    /\ (lastOp.ok /\ lastOp.op = "start")
       => LET deck == Decks[lastOp.amount]
              occupied == {i \in Slots : players[i] # Empty}
              n == Cardinality(occupied)
          IN /\ \A i \in occupied :
                   LET r == Cardinality({j \in occupied : j < i}) IN
                   ps[i].cards = <<deck[2 * r], deck[2 * r + 1]>>
             /\ community_cards = [k \in 1..5 |-> deck[2 * n + k - 1]]
             /\ Cardinality(CardsInPlay) = 2 * n + 5

C21_Witness ==
    /\ lastOp.ok /\ lastOp.op = "start"
    /\ player_count = 3
    /\ players[0] = Empty
    /\ community_cards # <<0, 0, 0, 0, 0>>

\* The first occupied slot met scanning the whole seat array circularly
\* from the slot after start; start itself when no other slot is occupied.
RECURSIVE ScanFullArray(_, _)
ScanFullArray(start, k) ==
    IF k >= max_players THEN start
    ELSE IF players[(start + k) % max_players] # Empty
         THEN (start + k) % max_players
         ELSE ScanFullArray(start, k + 1)

\* C22: a successful bet, check, call or fold that does not complete the
\* round moves current_player_index to the first occupied slot after it,
\* scanning the whole seat array circularly, and keeps it inside the array.
C22_AdvanceFullScan ==
    [][(lastOp'.ok /\ lastOp'.op \in BettingOps /\ ~lastOp'.completed)
       => /\ current_player_index' \in Slots
          /\ current_player_index' = ScanFullArray(current_player_index, 1)]_vars

\* C23: during a hand the round moves only forward, one step per round
\* completion and not otherwise, and stays at Showdown once there; a
\* completion leaves every current_bet and highest_bet 0 and gives the turn
\* to the first occupied slot after the dealer.
C23_RoundProgress ==
    [][/\ (status = "Playing" /\ status' = "Playing")
          => round' = (IF lastOp'.completed THEN NextRound(round) ELSE round)
       /\ (lastOp'.ok /\ lastOp'.op \in BettingOps /\ lastOp'.completed)
          => /\ \A i \in Slots : ps'[i].current_bet = 0
             /\ highest_bet' = 0
             /\ current_player_index' = ScanFullArray(dealer_index, 1)]_vars

\* C24: while a hand is played some instruction can succeed: the seat at
\* current_player_index is occupied, active and not folded, so that its
\* occupant can act, or showdown's requirements hold.
C24_NoStuckHand ==
    status = "Playing"
    => \/ /\ players[current_player_index] # Empty
          /\ ps[current_player_index].is_active
          /\ ~ps[current_player_index].is_folded
       \/ ShowdownAllowed

\* C25: the vault holds at least the chips of the seats, and exactly their
\* chips whenever the table is Waiting or Finished, so that every leave
\* can be paid in full.
C25_VaultSolvency ==
    /\ vault >= SumChips(ps)
    /\ status \in {"Waiting", "Finished"} => vault = SumChips(ps)
    /\ \A i \in Slots : players[i] = Empty => ps[i].chips = 0

C25_Witness ==
    /\ lastOp.ok /\ lastOp.op = "leave"
    /\ status = "Finished"
    /\ pot > 0
    /\ player_count >= 2
    /\ \E i \in Slots : players[i] # Empty /\ ps[i].chips # buy_in

\* C26: once round is Showdown no bet, check, call or fold succeeds, and
\* pot, highest_bet and every seat's chips and current_bet stay as they are
\* while the hand is played.
C26_BettingClosedAtShowdown ==
    [][(status = "Playing" /\ round = "Showdown")
       => /\ ~(lastOp'.ok /\ lastOp'.op \in BettingOps)
          /\ status' = "Playing"
             => /\ pot' = pot /\ highest_bet' = highest_bet
                /\ \A i \in Slots :
                      ps'[i].chips = ps[i].chips /\ ps'[i].current_bet = ps[i].current_bet]_vars

\* C27: while a hand is played every all-in seat has no chips, and a
\* successful instruction of an all-in seat adds nothing to the pot.
C27_AllInHasNoChips ==
    [][/\ status' = "Playing"
          => \A i \in Slots : ps'[i].is_all_in => ps'[i].chips = 0
       /\ (lastOp'.ok /\ lastOp'.op \in BettingOps
             /\ ps[current_player_index].is_all_in)
          => pot' = pot]_vars

C27_Witness ==
    /\ status = "Playing"
    /\ lastOp.ok /\ lastOp.op \in {"bet", "check", "call"}
    /\ \E i \in Slots :
          players[i] = lastOp.caller /\ ps[i].is_all_in /\ ~lastOp.completed
====
